---- MODULE Spec2Model ----
(***************************************************************************)
(* Campus Event Management System (web version, backend/): the event       *)
(* capacity and registration consistency subsystem.                        *)
(*                                                                         *)
(* State: the two JSON collections data/events.json and                    *)
(* data/registrations.json as FileManager.load_json / save_json see them,  *)
(* and, for the interleaved runs, the position, the local copies and the   *)
(* return value of each in-flight register_for_event.  For the users:      *)
(* data/users.json and auth_service.current_user.  For the console version *)
(* (Final_Project_PFP191_02): the objects its two controllers hold.        *)
(*                                                                         *)
(* Every service method is an operator from the stored collections and the *)
(* arguments to the dict it returns and the collections it leaves; the     *)
(* actions apply these operators to the store.                             *)
(*                                                                         *)
(* Abstractions of inputs (not of behaviour):                              *)
(*  - ids from secrets.token_hex are fresh; they are drawn from counters;  *)
(*  - an event date is "future" or "past" relative to datetime.now(),      *)
(*    or "invalid" when datetime.fromisoformat cannot parse it; PassTime   *)
(*    moves a future date into the past;                                   *)
(*  - title, description and location are taken to pass validation;        *)
(*  - update_event is called with one keyword argument at a time;           *)
(*  - cancel_registration and a direct bulk cancel are given the same      *)
(*    reason; CampusEventManager.delete_event gives its own;               *)
(*  - a manager call takes the acting user (auth_service.current_user as   *)
(*    the request handler set it) as an argument;                          *)
(*  - a save_json that fails leaves the file as it was or truncated.       *)
(***************************************************************************)
EXTENDS Integers, Sequences, FiniteSets, TLC

\* ------------------------------------------------------------------ bounds
MaxCap == 2
MaxRegs == 3

\* validators.py: max_capacity > 10000 is rejected
CapacityLimit == 10000

\* event ids that calls name; create_event hands out the ids of CreatableIds
EventIds == {1, 2}
CreatableIds == {1}
Users == {"u1", "u2"}
Organizers == {"o1"}
Procs == {"p1", "p2"}

EventStatus == {"draft", "active", "cancelled", "completed"}
RegistrationStatus == {"pending", "confirmed", "cancelled", "attended", "no_show"}
DateValues == {"future", "past", "invalid"}

\* the reason passed to cancel_registration and bulk_cancel_event_registrations
\* (cancel_registration's default)
DefaultReason == ""

VARIABLES
    events,         \* data/events.json: event_id -> record, for the stored ids
    nextEventId,    \* next fresh event id
    registrations,  \* data/registrations.json: the list of records, in file order
    nextRegId,      \* next fresh registration id
    pc,             \* interleaved runs: position of each register_for_event
    call,           \* interleaved runs: arguments of each call
    localEvent,     \* interleaved runs: the Event object a call holds
    localRegs,      \* interleaved runs: registrations_data a call loaded (line 75)
    localEvents,    \* interleaved runs: events_data _save_event loaded (line 232)
    ret,            \* interleaved runs: what each call returned
    users,          \* data/users.json: the list of user records, in file order
    current_user,   \* auth_service.current_user
    localUsers,     \* interleaved runs: users_data a register_user loaded (line 112)
    controller_events,  \* console version: EventController.events, by event_id
    controller_users    \* console version: UserController.users, by user_id

vars == <<events, nextEventId, registrations, nextRegId,
          pc, call, localEvent, localRegs, localEvents, ret,
          users, current_user, localUsers, controller_events, controller_users>>
authVars == <<users, current_user, localUsers>>
consoleVars == <<controller_events, controller_users>>
procVars == <<pc, call, localEvent, localRegs, localEvents, ret, authVars, consoleVars>>

NoEvent == [event_id |-> 0]
NoCall == [event_id |-> 0, user_id |-> "-"]

\* current_user is None: nobody is logged in
NoUser == [user_id |-> "-", role |-> "-"]

\* ------------------------------------------------------------ entity layer

\* Event.__init__: status ACTIVE, current_attendees 0
NewEvent(id, organizer, date, cap) ==
    [event_id |-> id, organizer_id |-> organizer, event_date |-> date,
     max_capacity |-> cap, status |-> "active", current_attendees |-> 0]

\* datetime.fromisoformat(self.event_date) > datetime.now(), except: return True
DateIsFuture(date) ==
    IF date = "invalid" THEN TRUE ELSE date = "future"

is_available_for_registration(ev) ==
    IF ev.status # "active" THEN FALSE
    ELSE IF ev.current_attendees >= ev.max_capacity THEN FALSE
    ELSE DateIsFuture(ev.event_date)

is_full(ev) == ev.current_attendees >= ev.max_capacity

\* mutant: the capacity is not looked at
add_attendee_unbounded(ev) == [ev EXCEPT !.current_attendees = @ + 1]

add_attendee(ev) ==
    IF ev.current_attendees < ev.max_capacity
    THEN [ev EXCEPT !.current_attendees = @ + 1]
    ELSE ev

\* mutant: the slot is never released
remove_attendee_keeps_slot(ev) == ev

remove_attendee(ev) ==
    IF ev.current_attendees > 0
    THEN [ev EXCEPT !.current_attendees = @ - 1]
    ELSE ev

\* mutant: a new registration waits for confirmation
NewRegistration_pending(id, e, u) ==
    [registration_id |-> id, event_id |-> e, user_id |-> u,
     status |-> "pending", notes |-> ""]

\* Registration.__init__: status CONFIRMED, notes ""
NewRegistration(id, e, u) ==
    [registration_id |-> id, event_id |-> e, user_id |-> u,
     status |-> "confirmed", notes |-> ""]

\* mutant: a cancelled registration still counts as active
is_active_with_cancelled(status) == status \in {"pending", "confirmed", "cancelled"}

is_active(status) == status \in {"pending", "confirmed"}

cancel(reg, reason) == [reg EXCEPT !.status = "cancelled", !.notes = reason]
mark_attended(reg) == [reg EXCEPT !.status = "attended"]
mark_no_show(reg) == [reg EXCEPT !.status = "no_show"]

\* ------------------------------------------------------------ persistence

MinOf(S) == CHOOSE x \in S : \A y \in S : x <= y

\* EventService.get_event_by_id on a loaded collection: the record or None
get_event_by_id(evs, e) ==
    IF e \in DOMAIN evs THEN evs[e] ELSE NoEvent

\* EventService._save_event on a loaded collection: replaces the record with
\* the same event_id, if there is one, and writes the collection back
SaveEvent(evs, ev) ==
    IF ev.event_id \in DOMAIN evs THEN [evs EXCEPT ![ev.event_id] = ev] ELSE evs

\* RegistrationService.get_registration: index of the FIRST record of the
\* (event, user) pair in file order, 0 for None
get_registration(regs, e, u) ==
    LET idx == {i \in 1..Len(regs) : regs[i].event_id = e /\ regs[i].user_id = u}
    IN IF idx = {} THEN 0 ELSE MinOf(idx)

\* index of the first record with the given registration_id, 0 if none
FindById(regs, rid) ==
    LET idx == {i \in 1..Len(regs) : regs[i].registration_id = rid}
    IN IF idx = {} THEN 0 ELSE MinOf(idx)

\* RegistrationService._save_registration on a loaded collection
SaveRegistration(regs, reg) ==
    LET i == FindById(regs, reg.registration_id)
    IN IF i = 0 THEN regs ELSE [regs EXCEPT ![i] = reg]

\* EventValidator.validate_event_date / validate_capacity, as used by
\* validate_event_data (the text fields are taken to be valid)
validate_event_data(date, cap) ==
    /\ date = "future"
    /\ cap > 0
    /\ cap <= CapacityLimit

\* ------------------------------------------------- EventService methods
\* Each returns [result, events]: the outcome and the collection it leaves.

\* EventService.create_event with a fresh id
create_event(evs, id, organizer, date, cap) ==
    IF ~validate_event_data(date, cap)
    THEN [result |-> "invalid", events |-> evs]
    ELSE [result |-> "ok",
          events |-> (id :> NewEvent(id, organizer, date, cap)) @@ evs]

UpdateKeys == {"max_capacity", "event_date", "current_attendees", "status"}
ValidatedKeys == {"max_capacity", "event_date"}

UpdateValues(key) ==
    CASE key = "max_capacity" -> 0..MaxCap
      [] key = "event_date" -> {"future", "past"}
      [] key = "current_attendees" -> 0..(MaxCap + 1)
      [] key = "status" -> EventStatus

\* Event.update: setattr for every keyword that names an attribute
update(ev, key, value) ==
    CASE key = "max_capacity" -> [ev EXCEPT !.max_capacity = value]
      [] key = "event_date" -> [ev EXCEPT !.event_date = value]
      [] key = "current_attendees" -> [ev EXCEPT !.current_attendees = value]
      [] key = "status" -> [ev EXCEPT !.status = value]

\* EventService.update_event(event_id, **{key: value})
update_event(evs, e, key, value) ==
    LET ev == get_event_by_id(evs, e)
        valid == validate_event_data(
                     IF key = "event_date" THEN value ELSE ev.event_date,
                     IF key = "max_capacity" THEN value ELSE ev.max_capacity)
    IN IF ev = NoEvent THEN [result |-> "event_not_found", events |-> evs]
       ELSE IF key \in ValidatedKeys /\ ~valid THEN [result |-> "invalid", events |-> evs]
       ELSE [result |-> "ok", events |-> SaveEvent(evs, update(ev, key, value))]

\* EventService.delete_event
delete_event(evs, e) ==
    IF e \in DOMAIN evs
    THEN [result |-> "ok", events |-> [x \in DOMAIN evs \ {e} |-> evs[x]]]
    ELSE [result |-> "event_not_found", events |-> evs]

\* EventService.cancel_event (Event.cancel)
cancel_event(evs, e) ==
    LET ev == get_event_by_id(evs, e)
    IN IF ev = NoEvent THEN [result |-> "event_not_found", events |-> evs]
       ELSE [result |-> "ok", events |-> SaveEvent(evs, [ev EXCEPT !.status = "cancelled"])]

\* EventService.complete_event (Event.complete)
complete_event(evs, e) ==
    LET ev == get_event_by_id(evs, e)
    IN IF ev = NoEvent THEN [result |-> "event_not_found", events |-> evs]
       ELSE [result |-> "ok", events |-> SaveEvent(evs, [ev EXCEPT !.status = "completed"])]

\* ------------------------------------------- RegistrationService methods
\* Each returns [result, events, registrations].

\* mutant: the duplicate check comes before the availability check
RegisterOutcome_duplicate_first(evs, regs, e, u) ==
    LET ev == get_event_by_id(evs, e)
        existing == get_registration(regs, e, u)
    IN IF ev = NoEvent THEN "event_not_found"
       ELSE IF existing # 0 /\ is_active(regs[existing].status) THEN "already_registered"
       ELSE IF ~is_available_for_registration(ev) THEN "not_available"
       ELSE IF is_full(ev) THEN "event_full"
       ELSE "ok"

\* the checks of register_for_event, in the order of the code (lines 38-65)
RegisterOutcome(evs, regs, e, u) ==
    LET ev == get_event_by_id(evs, e)
        existing == get_registration(regs, e, u)
    IN IF ev = NoEvent THEN "event_not_found"
       ELSE IF ~is_available_for_registration(ev) THEN "not_available"
       ELSE IF existing # 0 /\ is_active(regs[existing].status) THEN "already_registered"
       ELSE IF is_full(ev) THEN "event_full"
       ELSE "ok"

\* RegistrationService.register_for_event; rid is the fresh registration id
register_for_event(evs, regs, rid, e, u) ==
    LET result == RegisterOutcome(evs, regs, e, u)
    IN IF result = "ok"
       THEN [result |-> "ok",
             registrations |-> Append(regs, NewRegistration(rid, e, u)),
             events |-> SaveEvent(evs, add_attendee(get_event_by_id(evs, e)))]
       ELSE [result |-> result, registrations |-> regs, events |-> evs]

\* mutant: the slot is released before the registration is looked at
cancel_registration_releasing_first(evs, regs, e, u, reason) ==
    LET i == get_registration(regs, e, u)
        ev == get_event_by_id(evs, e)
        released == IF ev = NoEvent THEN evs ELSE SaveEvent(evs, remove_attendee(ev))
    IN IF i = 0
       THEN [result |-> "registration_not_found", registrations |-> regs,
             events |-> released]
       ELSE IF ~is_active(regs[i].status)
       THEN [result |-> "already_cancelled", registrations |-> regs, events |-> released]
       ELSE [result |-> "ok",
             registrations |-> SaveRegistration(regs, cancel(regs[i], reason)),
             events |-> released]

\* RegistrationService.cancel_registration
cancel_registration(evs, regs, e, u, reason) ==
    LET i == get_registration(regs, e, u)
        ev == get_event_by_id(evs, e)
    IN IF i = 0
       THEN [result |-> "registration_not_found", registrations |-> regs, events |-> evs]
       ELSE IF ~is_active(regs[i].status)
       THEN [result |-> "already_cancelled", registrations |-> regs, events |-> evs]
       ELSE [result |-> "ok",
             registrations |-> SaveRegistration(regs, cancel(regs[i], reason)),
             events |-> IF ev = NoEvent THEN evs ELSE SaveEvent(evs, remove_attendee(ev))]

\* mutant: marking also releases the slot of the registration's event
mark_attendance_releasing_slot(evs, regs, rid, attended) ==
    LET i == FindById(regs, rid)
    IN IF i = 0
       THEN [result |-> "registration_not_found", registrations |-> regs, events |-> evs]
       ELSE [result |-> "ok",
             registrations |-> [regs EXCEPT ![i] =
                                   IF attended THEN mark_attended(@) ELSE mark_no_show(@)],
             events |-> IF regs[i].event_id \in DOMAIN evs
                        THEN SaveEvent(evs, remove_attendee(evs[regs[i].event_id]))
                        ELSE evs]

\* RegistrationService.mark_attendance
mark_attendance(evs, regs, rid, attended) ==
    LET i == FindById(regs, rid)
    IN IF i = 0
       THEN [result |-> "registration_not_found", registrations |-> regs, events |-> evs]
       ELSE [result |-> "ok",
             registrations |-> [regs EXCEPT ![i] =
                                   IF attended THEN mark_attended(@) ELSE mark_no_show(@)],
             events |-> evs]

\* mutant: the loop runs over the registrations of every event
ActiveOfEvent_any_event(regs, e) ==
    {i \in 1..Len(regs) : is_active(regs[i].status)}

\* the registrations of get_event_registrations(e) that the loop cancels
ActiveOfEvent(regs, e) ==
    {i \in 1..Len(regs) : regs[i].event_id = e /\ is_active(regs[i].status)}

\* RegistrationService.bulk_cancel_event_registrations
bulk_cancel_event_registrations(evs, regs, e, reason) ==
    [result |-> "ok",
     cancelled_count |-> Cardinality(ActiveOfEvent(regs, e)),
     registrations |-> [i \in 1..Len(regs) |->
                           IF i \in ActiveOfEvent(regs, e)
                           THEN cancel(regs[i], reason) ELSE regs[i]],
     events |-> evs]

\* ------------------------------------------------ sequential service calls

CreateEventStep ==
    \E o \in Organizers, d \in DateValues, c \in 0..MaxCap :
        /\ nextEventId \in CreatableIds
        /\ LET r == create_event(events, nextEventId, o, d, c)
           IN /\ r.result = "ok"
              /\ events' = r.events
              /\ nextEventId' = nextEventId + 1
        /\ UNCHANGED <<registrations, nextRegId, procVars>>

UpdateEventStep ==
    \E e \in EventIds, k \in UpdateKeys : \E v \in UpdateValues(k) :
        /\ events' = update_event(events, e, k, v).events
        /\ UNCHANGED <<nextEventId, registrations, nextRegId, procVars>>

DeleteEventStep ==
    \E e \in EventIds :
        /\ events' = delete_event(events, e).events
        /\ UNCHANGED <<nextEventId, registrations, nextRegId, procVars>>

CancelEventStep ==
    \E e \in EventIds :
        /\ events' = cancel_event(events, e).events
        /\ UNCHANGED <<nextEventId, registrations, nextRegId, procVars>>

CompleteEventStep ==
    \E e \in EventIds :
        /\ events' = complete_event(events, e).events
        /\ UNCHANGED <<nextEventId, registrations, nextRegId, procVars>>

RegisterStep ==
    \E e \in EventIds, u \in Users :
        LET r == register_for_event(events, registrations, nextRegId, e, u)
        IN /\ r.result = "ok" => Len(registrations) < MaxRegs
           /\ events' = r.events
           /\ registrations' = r.registrations
           /\ nextRegId' = IF r.result = "ok" THEN nextRegId + 1 ELSE nextRegId
           /\ UNCHANGED <<nextEventId, procVars>>

CancelRegistrationStep ==
    \E e \in EventIds, u \in Users :
        LET r == cancel_registration(events, registrations, e, u, DefaultReason)
        IN /\ events' = r.events
           /\ registrations' = r.registrations
           /\ UNCHANGED <<nextEventId, nextRegId, procVars>>

MarkAttendanceStep ==
    \E rid \in 1..MaxRegs, a \in BOOLEAN :
        LET r == mark_attendance(events, registrations, rid, a)
        IN /\ events' = r.events
           /\ registrations' = r.registrations
           /\ UNCHANGED <<nextEventId, nextRegId, procVars>>

BulkCancelStep ==
    \E e \in EventIds :
        LET r == bulk_cancel_event_registrations(events, registrations, e, DefaultReason)
        IN /\ events' = r.events
           /\ registrations' = r.registrations
           /\ UNCHANGED <<nextEventId, nextRegId, procVars>>

\* datetime.now() moves past the date of a stored event
PassTimeStep ==
    \E e \in DOMAIN events :
        /\ events[e].event_date = "future"
        /\ events' = [events EXCEPT ![e].event_date = "past"]
        /\ UNCHANGED <<nextEventId, registrations, nextRegId, procVars>>

\* ------------------------------------------------------- specifications

IdleProcs ==
    /\ pc = [p \in Procs |-> "idle"]
    /\ call = [p \in Procs |-> NoCall]
    /\ localEvent = [p \in Procs |-> NoEvent]
    /\ localRegs = [p \in Procs |-> <<>>]
    /\ localEvents = [p \in Procs |-> <<>>]
    /\ ret = [p \in Procs |-> "-"]
    /\ users = <<>>
    /\ current_user = NoUser
    /\ localUsers = [p \in Procs |-> <<>>]
    /\ controller_events = <<>>
    /\ controller_users = <<>>

\* the state after construction: both collections empty
Init ==
    /\ events = <<>>
    /\ nextEventId = 1
    /\ registrations = <<>>
    /\ nextRegId = 1
    /\ IdleProcs

Next ==
    \/ CreateEventStep
    \/ UpdateEventStep
    \/ DeleteEventStep
    \/ CancelEventStep
    \/ CompleteEventStep
    \/ RegisterStep
    \/ CancelRegistrationStep
    \/ MarkAttendanceStep
    \/ BulkCancelStep
    \/ PassTimeStep

Spec == Init /\ [][Next]_vars

\* the coordinator operations alone, on events as create_event leaves them
InitCoordinator ==
    /\ \E caps \in [EventIds -> 1..MaxCap], orgs \in [EventIds -> Organizers] :
           events = [e \in EventIds |-> NewEvent(e, orgs[e], "future", caps[e])]
    /\ nextEventId = Cardinality(EventIds) + 1
    /\ registrations = <<>>
    /\ nextRegId = 1
    /\ IdleProcs

NextCoordinator ==
    \/ RegisterStep
    \/ CancelRegistrationStep
    \/ MarkAttendanceStep
    \/ BulkCancelStep

SpecCoordinator == InitCoordinator /\ [][NextCoordinator]_vars

NextRegCancel ==
    \/ RegisterStep
    \/ CancelRegistrationStep

SpecRegCancel == InitCoordinator /\ [][NextRegCancel]_vars

NextTerminal ==
    \/ RegisterStep
    \/ CancelRegistrationStep
    \/ MarkAttendanceStep
    \/ BulkCancelStep
    \/ CancelEventStep
    \/ CompleteEventStep

\* the coordinator operations on events that get cancelled or completed
SpecTerminal == InitCoordinator /\ [][NextTerminal]_vars

NextBulkCancel ==
    \/ RegisterStep
    \/ CancelRegistrationStep
    \/ BulkCancelStep

\* registrations made, cancelled one by one and cancelled in bulk
SpecBulkCancel == InitCoordinator /\ [][NextBulkCancel]_vars

\* ------------------------------------------- interleaved register_for_event
\* Two requests run RegistrationService.register_for_event at once (the web
\* server is started with threaded=True and the services take no lock). A
\* step is one load_json or save_json of a collection together with the
\* in-memory work that follows it.

\* a request enters register_for_event(e, u)
StartRegister(p) ==
    \E e \in EventIds, u \in Users :
        /\ pc[p] = "idle"
        /\ call' = [call EXCEPT ![p] = [event_id |-> e, user_id |-> u]]
        /\ pc' = [pc EXCEPT ![p] = "get_event"]
        /\ UNCHANGED <<authVars, consoleVars, events, nextEventId, registrations, nextRegId,
                       localEvent, localRegs, localEvents, ret>>

\* lines 38-50: get_event_by_id loads the events, then the availability check
GetEvent(p) ==
    /\ pc[p] = "get_event"
    /\ LET ev == get_event_by_id(events, call[p].event_id)
       IN IF ev = NoEvent
          THEN /\ ret' = [ret EXCEPT ![p] = "event_not_found"]
               /\ pc' = [pc EXCEPT ![p] = "done"]
               /\ UNCHANGED localEvent
          ELSE IF ~is_available_for_registration(ev)
          THEN /\ ret' = [ret EXCEPT ![p] = "not_available"]
               /\ pc' = [pc EXCEPT ![p] = "done"]
               /\ UNCHANGED localEvent
          ELSE /\ localEvent' = [localEvent EXCEPT ![p] = ev]
               /\ pc' = [pc EXCEPT ![p] = "get_registration"]
               /\ UNCHANGED ret
    /\ UNCHANGED <<authVars, consoleVars, events, nextEventId, registrations, nextRegId, call,
                   localRegs, localEvents>>

\* lines 53-72: get_registration loads the registrations, then the duplicate
\* check and is_full on the Event object loaded at line 38
GetRegistration(p) ==
    /\ pc[p] = "get_registration"
    /\ LET existing == get_registration(registrations, call[p].event_id, call[p].user_id)
       IN IF existing # 0 /\ is_active(registrations[existing].status)
          THEN /\ ret' = [ret EXCEPT ![p] = "already_registered"]
               /\ pc' = [pc EXCEPT ![p] = "done"]
          ELSE IF is_full(localEvent[p])
          THEN /\ ret' = [ret EXCEPT ![p] = "event_full"]
               /\ pc' = [pc EXCEPT ![p] = "done"]
          ELSE /\ pc' = [pc EXCEPT ![p] = "load_registrations"]
               /\ UNCHANGED ret
    /\ UNCHANGED <<authVars, consoleVars, events, nextEventId, registrations, nextRegId, call,
                   localEvent, localRegs, localEvents>>

\* line 75: registrations_data = load_json(registrations_file)
LoadRegistrations(p) ==
    /\ pc[p] = "load_registrations"
    /\ localRegs' = [localRegs EXCEPT ![p] = registrations]
    /\ pc' = [pc EXCEPT ![p] = "save_registrations"]
    /\ UNCHANGED <<authVars, consoleVars, events, nextEventId, registrations, nextRegId, call,
                   localEvent, localEvents, ret>>

\* lines 76-80: append, save_json(registrations_file), event.add_attendee()
SaveRegistrations(p) ==
    /\ pc[p] = "save_registrations"
    /\ registrations' = Append(localRegs[p],
                               NewRegistration(nextRegId, call[p].event_id, call[p].user_id))
    /\ nextRegId' = nextRegId + 1
    /\ localEvent' = [localEvent EXCEPT ![p] = add_attendee(@)]
    /\ pc' = [pc EXCEPT ![p] = "load_events"]
    /\ UNCHANGED <<authVars, consoleVars, events, nextEventId, call, localRegs, localEvents, ret>>

\* _save_event line 232: events_data = load_json(events_file)
LoadEvents(p) ==
    /\ pc[p] = "load_events"
    /\ localEvents' = [localEvents EXCEPT ![p] = events]
    /\ pc' = [pc EXCEPT ![p] = "save_events"]
    /\ UNCHANGED <<authVars, consoleVars, events, nextEventId, registrations, nextRegId, call,
                   localEvent, localRegs, ret>>

\* _save_event lines 234-239, then the success dict of line 83
SaveEvents(p) ==
    /\ pc[p] = "save_events"
    /\ events' = SaveEvent(localEvents[p], localEvent[p])
    /\ ret' = [ret EXCEPT ![p] = "ok"]
    /\ pc' = [pc EXCEPT ![p] = "done"]
    /\ UNCHANGED <<authVars, consoleVars, nextEventId, registrations, nextRegId, call,
                   localEvent, localRegs, localEvents>>

NextConcurrent ==
    \E p \in Procs :
        \/ StartRegister(p)
        \/ GetEvent(p)
        \/ GetRegistration(p)
        \/ LoadRegistrations(p)
        \/ SaveRegistrations(p)
        \/ LoadEvents(p)
        \/ SaveEvents(p)

\* the requests start on events as create_event leaves them, nobody registered
SpecConcurrent == InitCoordinator /\ [][NextConcurrent]_vars

\* ------------------------------------------------- users and the manager
\* CampusEventManager (main.py) puts the role checks in front of the services.
\* A web request sets auth_service.current_user from its session and then
\* calls the manager, so the acting user is an input of each manager call.

UserRole == {"admin", "organizer", "student", "visitor"}

\* the users that act; "o1" owns the events, "o2" is an organizer who does not
Actors ==
    {[user_id |-> "a1", role |-> "admin"],
     [user_id |-> "o1", role |-> "organizer"],
     [user_id |-> "o2", role |-> "organizer"],
     [user_id |-> "u1", role |-> "student"],
     [user_id |-> "u2", role |-> "visitor"]}

\* the action names of User.has_permission's table, those of the
\* specification's gate, and one that is in neither
PermissionActions ==
    {"create_event", "update_event", "delete_event", "view_all_events",
     "view_all_users", "generate_reports", "update_own_event",
     "delete_own_event", "view_own_events", "manage_registrations",
     "view_events", "register_event", "view_own_registrations",
     "view_registrations", "other"}

\* the dict literal of User.has_permission
permissions(role) ==
    CASE role = "admin" ->
            {"create_event", "update_event", "delete_event",
             "view_all_events", "view_all_users", "generate_reports"}
      [] role = "organizer" ->
            {"create_event", "update_own_event", "delete_own_event",
             "view_own_events", "manage_registrations"}
      [] role = "student" ->
            {"view_events", "register_event", "view_own_registrations"}
      [] role = "visitor" ->
            {"view_events", "register_event"}
      [] OTHER -> {}

\* User.has_permission: action in permissions.get(self.role, [])
has_permission(role, action) == action \in permissions(role)

\* mutant: every organizer may manage every event
MayManage_any_organizer(actor, ev) ==
    actor.role = "admin" \/ actor.role = "organizer"

\* the condition of main.py lines 83-84 and 102-103
MayManage(actor, ev) ==
    \/ actor.role = "admin"
    \/ (actor.role = "organizer" /\ ev.organizer_id = actor.user_id)

\* the reason CampusEventManager.delete_event gives to the bulk cancel
DeleteReason == "event_deleted"

\* CampusEventManager.update_event(event_id, **{key: value}) as actor
manager_update_event(actor, evs, regs, e, key, value) ==
    LET ev == get_event_by_id(evs, e)
    IN IF actor = NoUser
       THEN [result |-> "not_authenticated", events |-> evs, registrations |-> regs]
       ELSE IF ev = NoEvent
       THEN [result |-> "event_not_found", events |-> evs, registrations |-> regs]
       ELSE IF MayManage(actor, ev)
       THEN [result |-> update_event(evs, e, key, value).result,
             events |-> update_event(evs, e, key, value).events,
             registrations |-> regs]
       ELSE [result |-> "denied", events |-> evs, registrations |-> regs]

\* mutant: the event record is removed and the registrations are left alone
manager_delete_event_without_bulk_cancel(actor, evs, regs, e) ==
    LET ev == get_event_by_id(evs, e)
        none == [cancelled_count |-> 0, bulk_events |-> evs, bulk_registrations |-> regs]
    IN IF actor = NoUser
       THEN [result |-> "not_authenticated", events |-> evs, registrations |-> regs] @@ none
       ELSE IF ev = NoEvent
       THEN [result |-> "event_not_found", events |-> evs, registrations |-> regs] @@ none
       ELSE IF MayManage(actor, ev)
       THEN [result |-> delete_event(evs, e).result,
             events |-> delete_event(evs, e).events,
             registrations |-> regs] @@ none
       ELSE [result |-> "denied", events |-> evs, registrations |-> regs] @@ none

\* mutant: the registrations of the deleted event are removed from the file
manager_delete_event_dropping_registrations(actor, evs, regs, e) ==
    LET ev == get_event_by_id(evs, e)
        bulk == bulk_cancel_event_registrations(evs, regs, e, DeleteReason)
        none == [cancelled_count |-> 0, bulk_events |-> evs, bulk_registrations |-> regs]
    IN IF actor = NoUser
       THEN [result |-> "not_authenticated", events |-> evs, registrations |-> regs] @@ none
       ELSE IF ev = NoEvent
       THEN [result |-> "event_not_found", events |-> evs, registrations |-> regs] @@ none
       ELSE IF MayManage(actor, ev)
       THEN [result |-> delete_event(bulk.events, e).result,
             events |-> delete_event(bulk.events, e).events,
             registrations |-> SelectSeq(regs, LAMBDA r : r.event_id # e),
             cancelled_count |-> bulk.cancelled_count,
             bulk_events |-> bulk.events,
             bulk_registrations |-> bulk.registrations]
       ELSE [result |-> "denied", events |-> evs, registrations |-> regs] @@ none

\* CampusEventManager.delete_event(event_id) as actor. Besides the outcome and
\* the collections it leaves, the record holds what the bulk cancel of line
\* 106 returned and the collections as they are between line 108 and line 110.
manager_delete_event(actor, evs, regs, e) ==
    LET ev == get_event_by_id(evs, e)
        bulk == bulk_cancel_event_registrations(evs, regs, e, DeleteReason)
        none == [cancelled_count |-> 0, bulk_events |-> evs, bulk_registrations |-> regs]
    IN IF actor = NoUser
       THEN [result |-> "not_authenticated", events |-> evs, registrations |-> regs] @@ none
       ELSE IF ev = NoEvent
       THEN [result |-> "event_not_found", events |-> evs, registrations |-> regs] @@ none
       ELSE IF MayManage(actor, ev)
       THEN [result |-> delete_event(bulk.events, e).result,
             events |-> delete_event(bulk.events, e).events,
             registrations |-> bulk.registrations,
             cancelled_count |-> bulk.cancelled_count,
             bulk_events |-> bulk.events,
             bulk_registrations |-> bulk.registrations]
       ELSE [result |-> "denied", events |-> evs, registrations |-> regs] @@ none

\* the keyword that the update requests of the runs carry (the properties
\* range over every keyword of UpdateKeys)
RequestKeys == {"max_capacity"}

\* a request api_update_event of any session, or of none
ManagerUpdateEventStep ==
    \E actor \in Actors \cup {NoUser}, e \in EventIds, k \in RequestKeys :
        \E v \in UpdateValues(k) :
            LET r == manager_update_event(actor, events, registrations, e, k, v)
            IN /\ events' = r.events
               /\ registrations' = r.registrations
               /\ UNCHANGED <<nextEventId, nextRegId, procVars>>

\* a request api_delete_event of any session, or of none
ManagerDeleteEventStep ==
    \E actor \in Actors \cup {NoUser}, e \in EventIds :
        LET r == manager_delete_event(actor, events, registrations, e)
        IN /\ events' = r.events
           /\ registrations' = r.registrations
           /\ UNCHANGED <<nextEventId, nextRegId, procVars>>

NextManager ==
    \/ RegisterStep
    \/ CancelRegistrationStep
    \/ ManagerUpdateEventStep
    \/ ManagerDeleteEventStep

\* registrations, and the events managed through CampusEventManager
SpecManager == InitCoordinator /\ [][NextManager]_vars

\* two events as create_event leaves them, each with room for MaxCap attendees
InitRoomy ==
    /\ \E orgs \in [EventIds -> Organizers] :
           events = [e \in EventIds |-> NewEvent(e, orgs[e], "future", MaxCap)]
    /\ nextEventId = Cardinality(EventIds) + 1
    /\ registrations = <<>>
    /\ nextRegId = 1
    /\ IdleProcs

\* the coordinator operations on two roomy events
SpecAttendance == InitRoomy /\ [][NextCoordinator]_vars

\* a large event and one with a single place, as create_event leaves them
InitLifecycle ==
    /\ \E orgs \in [EventIds -> Organizers] :
           events = [e \in EventIds |->
                        NewEvent(e, orgs[e], "future", IF e = 1 THEN MaxCap ELSE 1)]
    /\ nextEventId = Cardinality(EventIds) + 1
    /\ registrations = <<>>
    /\ nextRegId = 1
    /\ IdleProcs

\* a request api_delete_event of the administrator's session
AdminDeleteEventStep ==
    \E actor \in {a \in Actors : a.role = "admin"}, e \in EventIds :
        LET r == manager_delete_event(actor, events, registrations, e)
        IN /\ events' = r.events
           /\ registrations' = r.registrations
           /\ UNCHANGED <<nextEventId, nextRegId, procVars>>

NextLifecycle ==
    \/ RegisterStep
    \/ CancelRegistrationStep
    \/ MarkAttendanceStep
    \/ BulkCancelStep
    \/ AdminDeleteEventStep

\* the whole life of a registration record: made, cancelled alone or in bulk,
\* marked, and left behind by the deletion of its event
SpecLifecycle == InitLifecycle /\ [][NextLifecycle]_vars

\* ------------------------------------------------ the model classes alone
\* The methods of Event applied to objects as Event.from_dict builds them
\* from any stored record, and User.has_permission; ret holds what the call
\* returned.

\* a returned bool, as ret holds it
PyBool(b) == IF b THEN "True" ELSE "False"

\* what Event.add_attendee returns
add_attendee_result(ev) == ev.current_attendees < ev.max_capacity

\* what Event.remove_attendee returns
remove_attendee_result(ev) == ev.current_attendees > 0

\* the Event objects of the runs: any status, any date, a positive capacity
\* and a count that update_event can have stored
EventObjects ==
    [event_id : {1}, organizer_id : Organizers, event_date : DateValues,
     max_capacity : 1..MaxCap, status : EventStatus,
     current_attendees : 0..(MaxCap + 1)]

InitModels ==
    /\ \E ev \in EventObjects : events = (1 :> ev)
    /\ nextEventId = 2
    /\ registrations = <<>>
    /\ nextRegId = 1
    /\ IdleProcs

AddAttendeeStep ==
    \E p \in Procs, e \in DOMAIN events :
        /\ events' = [events EXCEPT ![e] = add_attendee(@)]
        /\ ret' = [ret EXCEPT ![p] = PyBool(add_attendee_result(events[e]))]
        /\ UNCHANGED <<authVars, consoleVars, nextEventId, registrations, nextRegId,
                       pc, call, localEvent, localRegs, localEvents>>

RemoveAttendeeStep ==
    \E p \in Procs, e \in DOMAIN events :
        /\ events' = [events EXCEPT ![e] = remove_attendee(@)]
        /\ ret' = [ret EXCEPT ![p] = PyBool(remove_attendee_result(events[e]))]
        /\ UNCHANGED <<authVars, consoleVars, nextEventId, registrations, nextRegId,
                       pc, call, localEvent, localRegs, localEvents>>

IsAvailableStep ==
    \E p \in Procs, e \in DOMAIN events :
        /\ ret' = [ret EXCEPT ![p] = PyBool(is_available_for_registration(events[e]))]
        /\ UNCHANGED <<authVars, consoleVars, events, nextEventId, registrations, nextRegId,
                       pc, call, localEvent, localRegs, localEvents>>

NextModels ==
    \/ AddAttendeeStep
    \/ RemoveAttendeeStep
    \/ IsAvailableStep

SpecModels == InitModels /\ [][NextModels]_vars

\* has_permission(action) asked for a user of any role: call holds the role
\* and the action, ret the answer
HasPermissionStep ==
    \E p \in Procs, role \in UserRole, action \in PermissionActions :
        /\ call' = [call EXCEPT ![p] = [role |-> role, action |-> action]]
        /\ ret' = [ret EXCEPT ![p] = PyBool(has_permission(role, action))]
        /\ UNCHANGED <<authVars, consoleVars, events, nextEventId, registrations, nextRegId,
                       pc, localEvent, localRegs, localEvents>>

SpecPermission == Init /\ [][HasPermissionStep]_vars

\* ------------------------------------------------------- failing writes
\* FileManager.save_json catches every exception, prints it and returns
\* False. The file then holds what it held before (open failed), or, when
\* the failure came after open(filename, 'w') had truncated it, text that
\* load_json cannot decode and answers with the default, the empty list.

WriteResults == {"written", "unchanged", "truncated"}

\* what a collection holds after save_json(file, new) on a file holding old
save_json(old, new, w) ==
    CASE w = "written" -> new
      [] w = "unchanged" -> old
      [] w = "truncated" -> <<>>

\* register_for_event when the write of the registrations ends as w1 and
\* the write of the events as w2; write_failed: a save_json returned False
register_for_event_writes(evs, regs, rid, e, u, w1, w2) ==
    LET result == RegisterOutcome(evs, regs, e, u)
    IN IF result = "ok"
       THEN [result |-> "ok",
             registrations |-> save_json(regs, Append(regs, NewRegistration(rid, e, u)), w1),
             events |-> save_json(evs, SaveEvent(evs, add_attendee(get_event_by_id(evs, e))), w2),
             write_failed |-> (w1 # "written" \/ w2 # "written")]
       ELSE [result |-> result, registrations |-> regs, events |-> evs,
             write_failed |-> FALSE]

\* cancel_registration when the write of the registrations ends as w1 and
\* the write of the events as w2
cancel_registration_writes(evs, regs, e, u, reason, w1, w2) ==
    LET i == get_registration(regs, e, u)
        ev == get_event_by_id(evs, e)
    IN IF i = 0
       THEN [result |-> "registration_not_found", registrations |-> regs,
             events |-> evs, write_failed |-> FALSE]
       ELSE IF ~is_active(regs[i].status)
       THEN [result |-> "already_cancelled", registrations |-> regs,
             events |-> evs, write_failed |-> FALSE]
       ELSE [result |-> "ok",
             registrations |-> save_json(regs, SaveRegistration(regs, cancel(regs[i], reason)), w1),
             events |-> IF ev = NoEvent THEN evs
                        ELSE save_json(evs, SaveEvent(evs, remove_attendee(ev)), w2),
             write_failed |-> (w1 # "written" \/ (ev # NoEvent /\ w2 # "written"))]

RegisterWritesStep ==
    \E e \in EventIds, u \in Users, w1 \in WriteResults, w2 \in WriteResults :
        LET r == register_for_event_writes(events, registrations, nextRegId, e, u, w1, w2)
        IN /\ r.result = "ok" => nextRegId <= MaxRegs
           /\ events' = r.events
           /\ registrations' = r.registrations
           /\ nextRegId' = IF r.result = "ok" THEN nextRegId + 1 ELSE nextRegId
           /\ UNCHANGED <<nextEventId, procVars>>

CancelWritesStep ==
    \E e \in EventIds, u \in Users, w1 \in WriteResults, w2 \in WriteResults :
        LET r == cancel_registration_writes(events, registrations, e, u,
                                            DefaultReason, w1, w2)
        IN /\ events' = r.events
           /\ registrations' = r.registrations
           /\ UNCHANGED <<nextEventId, nextRegId, procVars>>

NextStorage ==
    \/ RegisterWritesStep
    \/ CancelWritesStep

\* registrations made and cancelled on a store whose writes can fail
SpecStorage == InitCoordinator /\ [][NextStorage]_vars

\* ------------------------------------------------------ login and session
\* AuthService on data/users.json, and the calls of CampusEventManager that
\* read auth_service.current_user themselves. One console session: login,
\* logout and manager calls follow one another.

\* AuthService._hash_password: the SHA-256 digest of the password
hash_password(password) == [sha256 |-> password]

\* a record of users.json, as User.to_dict writes it
NewUser(id, username, email, password, role) ==
    [user_id |-> id, username |-> username, email |-> email,
     password |-> hash_password(password), role |-> role, is_active |-> TRUE]

\* AuthService._initialize_default_users
DefaultUsers ==
    <<NewUser("a1", "admin", "admin@campus.edu", "admin123", "admin"),
      NewUser("o1", "organizer1", "organizer1@campus.edu", "org123", "organizer"),
      NewUser("u1", "student1", "student1@campus.edu", "student123", "student"),
      NewUser("u2", "visitor1", "visitor1@example.com", "visitor123", "visitor")>>

\* what a login form may carry
Usernames == {"admin", "organizer1", "student1", "nobody"}
Passwords == {"admin123", "org123", "student123"}

\* get_user_by_username / get_user_by_email / get_user_by_id on a loaded
\* list: index of the first match, 0 for None
get_user_by_username(us, username) ==
    LET idx == {i \in 1..Len(us) : us[i].username = username}
    IN IF idx = {} THEN 0 ELSE MinOf(idx)

get_user_by_email(us, email) ==
    LET idx == {i \in 1..Len(us) : us[i].email = email}
    IN IF idx = {} THEN 0 ELSE MinOf(idx)

get_user_by_id(us, id) ==
    LET idx == {i \in 1..Len(us) : us[i].user_id = id}
    IN IF idx = {} THEN 0 ELSE MinOf(idx)

\* the fields of a User object that the manager reads
SessionUser(u) == [user_id |-> u.user_id, role |-> u.role]

\* mutant: the user that was found is remembered before the password check
login_remembering_user(us, cur, username, password) ==
    LET i == get_user_by_username(us, username)
    IN IF i = 0 THEN [result |-> "user_not_found", current_user |-> cur]
       ELSE IF ~us[i].is_active
       THEN [result |-> "account_locked", current_user |-> SessionUser(us[i])]
       ELSE IF us[i].password # hash_password(password)
       THEN [result |-> "wrong_password", current_user |-> SessionUser(us[i])]
       ELSE [result |-> "ok", current_user |-> SessionUser(us[i])]

\* AuthService.login: the outcome and the current_user it leaves
login(us, cur, username, password) ==
    LET i == get_user_by_username(us, username)
    IN IF i = 0 THEN [result |-> "user_not_found", current_user |-> cur]
       ELSE IF ~us[i].is_active THEN [result |-> "account_locked", current_user |-> cur]
       ELSE IF us[i].password # hash_password(password)
       THEN [result |-> "wrong_password", current_user |-> cur]
       ELSE [result |-> "ok", current_user |-> SessionUser(us[i])]

\* AuthService.logout
logout(cur) == NoUser

\* CampusEventManager.create_event as actor, with a fresh id
manager_create_event(actor, evs, regs, id, date, cap) ==
    IF actor = NoUser
    THEN [result |-> "not_authenticated", events |-> evs, registrations |-> regs]
    ELSE IF ~has_permission(actor.role, "create_event")
    THEN [result |-> "denied", events |-> evs, registrations |-> regs]
    ELSE [result |-> create_event(evs, id, actor.user_id, date, cap).result,
          events |-> create_event(evs, id, actor.user_id, date, cap).events,
          registrations |-> regs]

\* CampusEventManager.register_for_event as actor
manager_register_for_event(actor, evs, regs, rid, e) ==
    IF actor = NoUser
    THEN [result |-> "not_authenticated", events |-> evs, registrations |-> regs]
    ELSE register_for_event(evs, regs, rid, e, actor.user_id)

\* CampusEventManager.cancel_registration as actor
manager_cancel_registration(actor, evs, regs, e, reason) ==
    IF actor = NoUser
    THEN [result |-> "not_authenticated", events |-> evs, registrations |-> regs]
    ELSE cancel_registration(evs, regs, e, actor.user_id, reason)

\* the session's calls; ret of the first process keeps the last outcome
Console == CHOOSE p \in Procs : TRUE

LoginStep ==
    \E username \in Usernames, password \in Passwords :
        LET r == login(users, current_user, username, password)
        IN /\ current_user' = r.current_user
           /\ ret' = [ret EXCEPT ![Console] = r.result]
           /\ UNCHANGED <<events, nextEventId, registrations, nextRegId,
                          pc, call, localEvent, localRegs, localEvents,
                          users, localUsers, consoleVars>>

LogoutStep ==
    /\ current_user' = logout(current_user)
    /\ ret' = [ret EXCEPT ![Console] = "-"]
    /\ UNCHANGED <<events, nextEventId, registrations, nextRegId,
                   pc, call, localEvent, localRegs, localEvents,
                   users, localUsers, consoleVars>>

SessionCreateEventStep ==
    \E d \in DateValues, c \in 0..MaxCap :
        LET r == manager_create_event(current_user, events, registrations,
                                      nextEventId, d, c)
        IN /\ r.result = "ok" => nextEventId \in CreatableIds
           /\ events' = r.events
           /\ nextEventId' = IF r.result = "ok" THEN nextEventId + 1 ELSE nextEventId
           /\ ret' = [ret EXCEPT ![Console] = r.result]
           /\ UNCHANGED <<registrations, nextRegId,
                          pc, call, localEvent, localRegs, localEvents,
                          authVars, consoleVars>>

SessionUpdateEventStep ==
    \E e \in EventIds, k \in RequestKeys : \E v \in UpdateValues(k) :
        LET r == manager_update_event(current_user, events, registrations, e, k, v)
        IN /\ events' = r.events
           /\ ret' = [ret EXCEPT ![Console] = r.result]
           /\ UNCHANGED <<nextEventId, registrations, nextRegId,
                          pc, call, localEvent, localRegs, localEvents,
                          authVars, consoleVars>>

SessionDeleteEventStep ==
    \E e \in EventIds :
        LET r == manager_delete_event(current_user, events, registrations, e)
        IN /\ events' = r.events
           /\ registrations' = r.registrations
           /\ ret' = [ret EXCEPT ![Console] = r.result]
           /\ UNCHANGED <<nextEventId, nextRegId,
                          pc, call, localEvent, localRegs, localEvents,
                          authVars, consoleVars>>

SessionRegisterStep ==
    \E e \in EventIds :
        LET r == manager_register_for_event(current_user, events, registrations,
                                            nextRegId, e)
        IN /\ r.result = "ok" => Len(registrations) < MaxRegs
           /\ events' = r.events
           /\ registrations' = r.registrations
           /\ nextRegId' = IF r.result = "ok" THEN nextRegId + 1 ELSE nextRegId
           /\ ret' = [ret EXCEPT ![Console] = r.result]
           /\ UNCHANGED <<nextEventId,
                          pc, call, localEvent, localRegs, localEvents,
                          authVars, consoleVars>>

SessionCancelRegistrationStep ==
    \E e \in EventIds :
        LET r == manager_cancel_registration(current_user, events, registrations,
                                             e, DefaultReason)
        IN /\ events' = r.events
           /\ registrations' = r.registrations
           /\ ret' = [ret EXCEPT ![Console] = r.result]
           /\ UNCHANGED <<nextEventId, nextRegId,
                          pc, call, localEvent, localRegs, localEvents,
                          authVars, consoleVars>>

\* the state after CampusEventManager(): the default users, nobody logged in
InitSession ==
    /\ events = <<>>
    /\ nextEventId = 1
    /\ registrations = <<>>
    /\ nextRegId = 1
    /\ pc = [p \in Procs |-> "idle"]
    /\ call = [p \in Procs |-> NoCall]
    /\ localEvent = [p \in Procs |-> NoEvent]
    /\ localRegs = [p \in Procs |-> <<>>]
    /\ localEvents = [p \in Procs |-> <<>>]
    /\ ret = [p \in Procs |-> "-"]
    /\ users = DefaultUsers
    /\ current_user = NoUser
    /\ localUsers = [p \in Procs |-> <<>>]
    /\ controller_events = <<>>
    /\ controller_users = <<>>

NextSession ==
    \/ LoginStep
    \/ LogoutStep
    \/ SessionCreateEventStep
    \/ SessionUpdateEventStep
    \/ SessionDeleteEventStep
    \/ SessionRegisterStep
    \/ SessionCancelRegistrationStep

SpecSession == InitSession /\ [][NextSession]_vars

\* ------------------------------------------------- concurrent web requests
\* frontend/app.py: every handler first stores the user of its session in
\* the one auth_service.current_user of the process, then calls the manager,
\* which reads that field. The server handles requests in threads. A step is
\* the handler's assignment, or the manager call that follows it.

RequestOps == {"register", "unregister", "update", "delete"}

\* the user ids that the sessions hold
SessionIds == {DefaultUsers[i].user_id : i \in 1..Len(DefaultUsers)}

\* a request of a logged-in session arrives; the sessions of the requests
\* in flight belong to different users
StartRequest(p) ==
    \E sid \in SessionIds, op \in RequestOps, e \in EventIds :
        /\ pc[p] = "idle"
        /\ \A q \in Procs \ {p} : call[q].user_id # sid
        /\ call' = [call EXCEPT ![p] = [event_id |-> e, user_id |-> sid, op |-> op,
                                        acted_as |-> NoUser]]
        /\ pc' = [pc EXCEPT ![p] = "load_user"]
        /\ UNCHANGED <<events, nextEventId, registrations, nextRegId,
                       localEvent, localRegs, localEvents, ret,
                       authVars, consoleVars>>

\* user = get_user_by_id(session['user_id']); if user: current_user = user
LoadCurrentUser(p) ==
    /\ pc[p] = "load_user"
    /\ LET i == get_user_by_id(users, call[p].user_id)
       IN current_user' = IF i # 0 THEN SessionUser(users[i]) ELSE current_user
    /\ pc' = [pc EXCEPT ![p] = "manager"]
    /\ UNCHANGED <<events, nextEventId, registrations, nextRegId,
                   call, localEvent, localRegs, localEvents, ret,
                   users, localUsers, consoleVars>>

\* what the manager method of the request returns and leaves, as actor
ManagerResult(op, actor, evs, regs, rid, e, value) ==
    CASE op = "register" -> manager_register_for_event(actor, evs, regs, rid, e)
      [] op = "unregister" -> manager_cancel_registration(actor, evs, regs, e, DefaultReason)
      [] op = "update" ->
            manager_update_event(actor, evs, regs, e, "max_capacity", value)
      [] op = "delete" ->
            [x \in {"result", "events", "registrations"} |->
                manager_delete_event(actor, evs, regs, e)[x]]

\* event_manager.<method>(event_id, ...): the manager reads current_user
ManagerCall(p) ==
    \E value \in UpdateValues("max_capacity") :
        /\ pc[p] = "manager"
        /\ LET r == ManagerResult(call[p].op, current_user, events, registrations,
                                  nextRegId, call[p].event_id, value)
           IN /\ events' = r.events
              /\ registrations' = r.registrations
              /\ nextRegId' = IF Len(r.registrations) > Len(registrations)
                              THEN nextRegId + 1 ELSE nextRegId
              /\ ret' = [ret EXCEPT ![p] = r.result]
        /\ call' = [call EXCEPT ![p].acted_as = current_user]
        /\ pc' = [pc EXCEPT ![p] = "done"]
        /\ UNCHANGED <<nextEventId, localEvent, localRegs, localEvents,
                       authVars, consoleVars>>

\* two events with room for everybody, the default users, nobody registered
InitRequests ==
    /\ \E orgs \in [EventIds -> Organizers] :
           events = [e \in EventIds |-> NewEvent(e, orgs[e], "future", MaxCap)]
    /\ nextEventId = Cardinality(EventIds) + 1
    /\ registrations = <<>>
    /\ nextRegId = 1
    /\ pc = [p \in Procs |-> "idle"]
    /\ call = [p \in Procs |-> NoCall]
    /\ localEvent = [p \in Procs |-> NoEvent]
    /\ localRegs = [p \in Procs |-> <<>>]
    /\ localEvents = [p \in Procs |-> <<>>]
    /\ ret = [p \in Procs |-> "-"]
    /\ users = DefaultUsers
    /\ current_user = NoUser
    /\ localUsers = [p \in Procs |-> <<>>]
    /\ controller_events = <<>>
    /\ controller_users = <<>>

NextRequests ==
    \E p \in Procs :
        \/ StartRequest(p)
        \/ LoadCurrentUser(p)
        \/ ManagerCall(p)

SpecRequests == InitRequests /\ [][NextRequests]_vars

\* ---------------------------------------------------- interleaved register_user
\* Two requests run AuthService.register_user at once. A step is one
\* load_json or save_json of users.json with the in-memory work after it.

\* what a registration form may carry: a taken and a free name and address
FormUsernames == {"admin", "newcomer"}
FormEmails == {"admin@campus.edu", "newcomer@campus.edu"}

\* AuthService._generate_user_id: a fresh id for the user a call creates
NewUserId(p) == "user_" \o p

StartRegisterUser(p) ==
    \E username \in FormUsernames, email \in FormEmails :
        /\ pc[p] = "idle"
        /\ call' = [call EXCEPT ![p] = [username |-> username, email |-> email]]
        /\ pc' = [pc EXCEPT ![p] = "check_username"]
        /\ UNCHANGED <<events, nextEventId, registrations, nextRegId,
                       localEvent, localRegs, localEvents, ret,
                       authVars, consoleVars>>

\* lines 88-93: get_user_by_username loads users.json
CheckUsername(p) ==
    /\ pc[p] = "check_username"
    /\ IF get_user_by_username(users, call[p].username) # 0
       THEN /\ ret' = [ret EXCEPT ![p] = "username_exists"]
            /\ pc' = [pc EXCEPT ![p] = "done"]
       ELSE /\ pc' = [pc EXCEPT ![p] = "check_email"]
            /\ UNCHANGED ret
    /\ UNCHANGED <<events, nextEventId, registrations, nextRegId,
                   call, localEvent, localRegs, localEvents,
                   authVars, consoleVars>>

\* lines 95-100: get_user_by_email loads users.json
CheckEmail(p) ==
    /\ pc[p] = "check_email"
    /\ IF get_user_by_email(users, call[p].email) # 0
       THEN /\ ret' = [ret EXCEPT ![p] = "email_exists"]
            /\ pc' = [pc EXCEPT ![p] = "done"]
       ELSE /\ pc' = [pc EXCEPT ![p] = "load_users"]
            /\ UNCHANGED ret
    /\ UNCHANGED <<events, nextEventId, registrations, nextRegId,
                   call, localEvent, localRegs, localEvents,
                   authVars, consoleVars>>

\* line 112: users_data = load_json(users_file)
LoadUsers(p) ==
    /\ pc[p] = "load_users"
    /\ localUsers' = [localUsers EXCEPT ![p] = users]
    /\ pc' = [pc EXCEPT ![p] = "save_users"]
    /\ UNCHANGED <<events, nextEventId, registrations, nextRegId,
                   call, localEvent, localRegs, localEvents, ret,
                   users, current_user, consoleVars>>

\* lines 113-120: append, save_json(users_file), the success dict
SaveUsers(p) ==
    /\ pc[p] = "save_users"
    /\ users' = Append(localUsers[p],
                       NewUser(NewUserId(p), call[p].username, call[p].email,
                               "secret", "student"))
    /\ ret' = [ret EXCEPT ![p] = "ok"]
    /\ pc' = [pc EXCEPT ![p] = "done"]
    /\ UNCHANGED <<events, nextEventId, registrations, nextRegId,
                   call, localEvent, localRegs, localEvents,
                   current_user, localUsers, consoleVars>>

NextRegisterUser ==
    \E p \in Procs :
        \/ StartRegisterUser(p)
        \/ CheckUsername(p)
        \/ CheckEmail(p)
        \/ LoadUsers(p)
        \/ SaveUsers(p)

\* the requests start on the default users
SpecRegisterUser == InitSession /\ [][NextRegisterUser]_vars

\* ------------------------------------------------------ the console version
\* Final_Project_PFP191_02: EventController.events and UserController.users
\* hold the objects; an Event keeps the list attendees of user ids and a User
\* the list registered_events of event ids. The events stay active and
\* upcoming.

ConsoleUserIds == Users

InList(x, list) == \E i \in 1..Len(list) : list[i] = x

\* list.remove(x): the first occurrence goes
ListRemove(list, x) ==
    LET first == MinOf({i \in 1..Len(list) : list[i] = x})
    IN [i \in 1..(Len(list) - 1) |-> IF i < first THEN list[i] ELSE list[i + 1]]

\* models/event.py Event.__init__
NewConsoleEvent(id, capacity) ==
    [event_id |-> id, capacity |-> capacity, attendees |-> <<>>,
     status |-> "active", upcoming |-> TRUE]

\* models/user.py User.__init__
NewConsoleUser(id) == [user_id |-> id, registered_events |-> <<>>]

\* Event.add_attendee(user_id): whether it appends
attendee_accepted(ev, u) ==
    ~InList(u, ev.attendees) /\ Len(ev.attendees) < ev.capacity

\* EventController.register_attendee(event_id, user)
register_attendee(evs, us, e, u) ==
    IF e \notin DOMAIN evs THEN [result |-> FALSE, events |-> evs, users |-> us]
    ELSE IF evs[e].status # "active" THEN [result |-> FALSE, events |-> evs, users |-> us]
    ELSE IF ~evs[e].upcoming THEN [result |-> FALSE, events |-> evs, users |-> us]
    ELSE IF Len(evs[e].attendees) >= evs[e].capacity
    THEN [result |-> FALSE, events |-> evs, users |-> us]
    ELSE IF InList(u, evs[e].attendees)
    THEN [result |-> FALSE, events |-> evs, users |-> us]
    ELSE IF attendee_accepted(evs[e], u)
    THEN [result |-> TRUE,
          events |-> [evs EXCEPT ![e].attendees = Append(@, u)],
          users |-> [us EXCEPT ![u].registered_events =
                        IF InList(e, @) THEN @ ELSE Append(@, e)]]
    ELSE [result |-> FALSE, events |-> evs, users |-> us]

\* EventController.unregister_attendee(event_id, user)
unregister_attendee(evs, us, e, u) ==
    IF e \notin DOMAIN evs THEN [result |-> FALSE, events |-> evs, users |-> us]
    ELSE IF ~InList(u, evs[e].attendees)
    THEN [result |-> FALSE, events |-> evs, users |-> us]
    ELSE [result |-> TRUE,
          events |-> [evs EXCEPT ![e].attendees = ListRemove(@, u)],
          users |-> [us EXCEPT ![u].registered_events =
                        IF InList(e, @) THEN ListRemove(@, e) ELSE @]]

\* EventController.delete_event: self.events.remove(event)
controller_delete_event(evs, us, e) ==
    IF e \notin DOMAIN evs THEN [result |-> FALSE, events |-> evs, users |-> us]
    ELSE [result |-> TRUE,
          events |-> [x \in DOMAIN evs \ {e} |-> evs[x]],
          users |-> us]

\* UserController.delete_user: self.users.remove(user)
controller_delete_user(evs, us, u) ==
    IF u \notin DOMAIN us THEN [result |-> FALSE, events |-> evs, users |-> us]
    ELSE [result |-> TRUE,
          events |-> evs,
          users |-> [x \in DOMAIN us \ {u} |-> us[x]]]

\* the logged-in user registers (main.py _register_for_event)
RegisterAttendeeStep ==
    \E e \in EventIds, u \in DOMAIN controller_users :
        LET r == register_attendee(controller_events, controller_users, e, u)
        IN /\ controller_events' = r.events
           /\ controller_users' = r.users
           /\ UNCHANGED <<events, nextEventId, registrations, nextRegId,
                          pc, call, localEvent, localRegs, localEvents, ret, authVars>>

UnregisterAttendeeStep ==
    \E e \in EventIds, u \in DOMAIN controller_users :
        LET r == unregister_attendee(controller_events, controller_users, e, u)
        IN /\ controller_events' = r.events
           /\ controller_users' = r.users
           /\ UNCHANGED <<events, nextEventId, registrations, nextRegId,
                          pc, call, localEvent, localRegs, localEvents, ret, authVars>>

ControllerDeleteEventStep ==
    \E e \in EventIds :
        LET r == controller_delete_event(controller_events, controller_users, e)
        IN /\ controller_events' = r.events
           /\ controller_users' = r.users
           /\ UNCHANGED <<events, nextEventId, registrations, nextRegId,
                          pc, call, localEvent, localRegs, localEvents, ret, authVars>>

ControllerDeleteUserStep ==
    \E u \in ConsoleUserIds :
        LET r == controller_delete_user(controller_events, controller_users, u)
        IN /\ controller_events' = r.events
           /\ controller_users' = r.users
           /\ UNCHANGED <<events, nextEventId, registrations, nextRegId,
                          pc, call, localEvent, localRegs, localEvents, ret, authVars>>

\* two events and two users, nobody registered
InitConsole ==
    /\ events = <<>>
    /\ nextEventId = 1
    /\ registrations = <<>>
    /\ nextRegId = 1
    /\ pc = [p \in Procs |-> "idle"]
    /\ call = [p \in Procs |-> NoCall]
    /\ localEvent = [p \in Procs |-> NoEvent]
    /\ localRegs = [p \in Procs |-> <<>>]
    /\ localEvents = [p \in Procs |-> <<>>]
    /\ ret = [p \in Procs |-> "-"]
    /\ users = <<>>
    /\ current_user = NoUser
    /\ localUsers = [p \in Procs |-> <<>>]
    /\ \E caps \in [EventIds -> 1..MaxCap] :
           controller_events = [e \in EventIds |-> NewConsoleEvent(e, caps[e])]
    /\ controller_users = [u \in ConsoleUserIds |-> NewConsoleUser(u)]

NextConsole ==
    \/ RegisterAttendeeStep
    \/ UnregisterAttendeeStep
    \/ ControllerDeleteEventStep
    \/ ControllerDeleteUserStep

SpecConsole == InitConsole /\ [][NextConsole]_vars

\* ------------------------------------------------------------ properties
\* The notions of the specification, stated on the stored collections alone.

ActiveStatuses == {"pending", "confirmed"}
CountedStatuses == {"confirmed", "attended"}

\* the stored registrations of an (event, user) pair, and the active ones
RecordsOfPair(regs, e, u) ==
    {i \in 1..Len(regs) : regs[i].event_id = e /\ regs[i].user_id = u}
ActiveOfPair(regs, e, u) ==
    {i \in RecordsOfPair(regs, e, u) : regs[i].status \in ActiveStatuses}
CancelledOfPair(regs, e, u) ==
    {i \in RecordsOfPair(regs, e, u) : regs[i].status = "cancelled"}

\* status Active, a free slot, and a date later than now
Available(ev) ==
    /\ ev.status = "active"
    /\ ev.current_attendees < ev.max_capacity
    /\ ev.event_date = "future"

\* every event's current_attendees is the number of its Confirmed or Attended
\* registrations
AttendeesMatch(evs, regs) ==
    \A e \in DOMAIN evs :
        evs[e].current_attendees =
            Cardinality({i \in 1..Len(regs) : /\ regs[i].event_id = e
                                              /\ regs[i].status \in CountedStatuses})

\* C1: in every state reachable by create_event, update_event,
\* register_for_event, cancel_registration, mark_attendance, cancel_event,
\* complete_event and delete_event, every stored event has
\* 0 <= current_attendees <= max_capacity.
C1_CapacityInvariant ==
    \A e \in DOMAIN events :
        /\ 0 <= events[e].current_attendees
        /\ events[e].current_attendees <= events[e].max_capacity

\* C2 (as claimed): after every sequence of register_for_event,
\* cancel_registration, bulk_cancel_event_registrations and mark_attendance,
\* each stored event's current_attendees equals the number of its stored
\* registrations with status Confirmed or Attended.
C2_AttendeesMatchRegistrations == AttendeesMatch(events, registrations)

\* C2 (amended): register_for_event and cancel_registration keep the equality:
\* called in a state reached by the coordinator operations in which every
\* event's current_attendees equals the number of its Confirmed or Attended
\* registrations, either call leaves a state in which it does.
C2_RegisterCancelKeepMatch ==
    AttendeesMatch(events, registrations) =>
        \A e \in EventIds, u \in Users :
            LET r == register_for_event(events, registrations, nextRegId, e, u)
                c == cancel_registration(events, registrations, e, u, DefaultReason)
            IN /\ AttendeesMatch(r.events, r.registrations)
               /\ AttendeesMatch(c.events, c.registrations)

\* C2 witness: the equality holds in a state where a registration has been
\* made and cancelled and another one is counted.
C2_Witness ==
    /\ AttendeesMatch(events, registrations)
    /\ \E i, j \in 1..Len(registrations) :
           /\ registrations[i].status = "cancelled"
           /\ registrations[j].status = "confirmed"
           /\ registrations[i].event_id = registrations[j].event_id

\* C3: for every (event_id, user_id) pair at most one stored registration has
\* status Pending or Confirmed, in every state reachable by register_for_event
\* and cancel_registration calls.
C3_AtMostOneActivePerPair ==
    \A e \in EventIds, u \in Users :
        Cardinality(ActiveOfPair(registrations, e, u)) <= 1

\* C4: two register_for_event calls by different users, interleaved, on an
\* event with exactly one remaining slot (capacity 1, nobody registered when
\* they start) do not both return success; at most one registration is
\* created and current_attendees never exceeds max_capacity.
C4_LastSlotGivenOnce ==
    \A e \in DOMAIN events :
        /\ events[e].current_attendees <= events[e].max_capacity
        /\ events[e].max_capacity = 1 =>
               \A p, q \in Procs :
                   (/\ p # q
                    /\ call[p].event_id = e
                    /\ call[q].event_id = e
                    /\ call[p].user_id # call[q].user_id)
                   => /\ ~(ret[p] = "ok" /\ ret[q] = "ok")
                      /\ Cardinality({i \in 1..Len(registrations) :
                                         registrations[i].event_id = e}) <= 1

\* C5: cancel_registration(event, user) acts on the pair's active registration
\* whenever one exists, also when older cancelled records of the pair are
\* stored; it fails with not-found only when the pair has no registration at
\* all, and with already-cancelled only when the pair has no active one.
C5_CancelActsOnActive ==
    \A e \in EventIds, u \in Users :
        LET c == cancel_registration(events, registrations, e, u, DefaultReason)
            active == ActiveOfPair(registrations, e, u)
        IN /\ active # {} =>
                  /\ c.result = "ok"
                  /\ \E i \in active : c.registrations[i].status = "cancelled"
           /\ c.result = "registration_not_found" =>
                  RecordsOfPair(registrations, e, u) = {}
           /\ c.result = "already_cancelled" => active = {}

\* C6: from any reachable state in which register_for_event(event, user)
\* succeeds, a following cancel_registration(event, user) succeeds and returns
\* the event's current_attendees to its value before the registration.
C6_RegisterCancelRoundTrip ==
    \A e \in EventIds, u \in Users :
        LET r == register_for_event(events, registrations, nextRegId, e, u)
            c == cancel_registration(r.events, r.registrations, e, u, DefaultReason)
        IN r.result = "ok" =>
               /\ c.result = "ok"
               /\ c.events[e].current_attendees = events[e].current_attendees

\* C7: cancelling a registration that is already cancelled (the pair has a
\* Cancelled record and no active one) returns the already-cancelled failure
\* and leaves every event and every stored registration unchanged; the same
\* holds for the cancel repeated after it.
C7_CancelOfCancelledChangesNothing ==
    \A e \in EventIds, u \in Users :
        (/\ CancelledOfPair(registrations, e, u) # {}
         /\ ActiveOfPair(registrations, e, u) = {})
        => LET c == cancel_registration(events, registrations, e, u, DefaultReason)
               again == cancel_registration(c.events, c.registrations, e, u, DefaultReason)
           IN /\ c.result = "already_cancelled"
              /\ c.events = events
              /\ c.registrations = registrations
              /\ again = c

\* C7 witness: a pair whose registration has been cancelled and that holds no
\* active one.
C7_Witness ==
    \E e \in EventIds, u \in Users :
        /\ CancelledOfPair(registrations, e, u) # {}
        /\ ActiveOfPair(registrations, e, u) = {}
        /\ e \in DOMAIN events
        /\ events[e].current_attendees > 0

\* C8: registering for an active, future event whose current_attendees equals
\* max_capacity fails with the EventFull outcome (not EventNotAvailable);
\* registering (a user without an active registration) for an active, future
\* event with exactly one free slot succeeds and makes current_attendees equal
\* to max_capacity.
C8_FullEventGivesEventFull ==
    \A e \in DOMAIN events, u \in Users :
        LET ev == events[e]
            r == register_for_event(events, registrations, nextRegId, e, u)
        IN (ev.status = "active" /\ ev.event_date = "future") =>
               /\ ev.current_attendees = ev.max_capacity => r.result = "event_full"
               /\ (/\ ev.current_attendees = ev.max_capacity - 1
                   /\ ActiveOfPair(registrations, e, u) = {})
                  => /\ r.result = "ok"
                     /\ r.events[e].current_attendees = ev.max_capacity

\* C9: a user who holds an active registration for an available event and
\* calls register_for_event again for it gets the AlreadyRegistered failure;
\* no second registration is created and current_attendees is unchanged.
C9_ActiveHolderIsRefused ==
    \A e \in DOMAIN events, u \in Users :
        (/\ ActiveOfPair(registrations, e, u) # {}
         /\ Available(events[e]))
        => LET r == register_for_event(events, registrations, nextRegId, e, u)
           IN /\ r.result = "already_registered"
              /\ r.registrations = registrations
              /\ r.events = events

\* the record register_for_event fetches for the pair (step 3 of the
\* coordinator): the first one stored, 0 if the pair has none
FetchedOfPair(regs, e, u) ==
    IF RecordsOfPair(regs, e, u) = {} THEN 0
    ELSE CHOOSE i \in RecordsOfPair(regs, e, u) :
             \A j \in RecordsOfPair(regs, e, u) : i <= j

\* the first of the four failures that applies, "ok" when none does
FirstFailure(evs, regs, e, u) ==
    IF e \notin DOMAIN evs THEN "event_not_found"
    ELSE IF ~Available(evs[e]) THEN "not_available"
    ELSE IF /\ FetchedOfPair(regs, e, u) # 0
            /\ regs[FetchedOfPair(regs, e, u)].status \in ActiveStatuses
         THEN "already_registered"
    ELSE IF evs[e].current_attendees >= evs[e].max_capacity THEN "event_full"
    ELSE "ok"

ActiveRecordsOfEvent(regs, e) ==
    {i \in 1..Len(regs) : regs[i].event_id = e /\ regs[i].status \in ActiveStatuses}

\* the gate for update_event and delete_event: an Admin, or the Organizer
\* whose user_id is the event's organizer_id
Authorized(actor, ev) ==
    \/ actor.role = "admin"
    \/ (actor.role = "organizer" /\ actor.user_id = ev.organizer_id)

\* C11: when an authorized actor deletes a stored event with n active
\* registrations, the bulk cancel reports n and has run while the event is
\* still stored (between the two calls every registration of the event is
\* non-active and the event is there); delete_event returns success, and then
\* every registration of the event is non-active, the n formerly active ones
\* are Cancelled, and the event is no longer stored.
C11_DeleteCancelsThenRemoves ==
    \A actor \in Actors, e \in DOMAIN events :
        Authorized(actor, events[e]) =>
            LET d == manager_delete_event(actor, events, registrations, e)
                active == ActiveRecordsOfEvent(registrations, e)
            IN /\ d.result = "ok"
               /\ d.cancelled_count = Cardinality(active)
               /\ e \in DOMAIN d.bulk_events
               /\ ActiveRecordsOfEvent(d.bulk_registrations, e) = {}
               /\ e \notin DOMAIN d.events
               /\ Len(d.registrations) = Len(registrations)
               /\ ActiveRecordsOfEvent(d.registrations, e) = {}
               /\ \A i \in active : d.registrations[i].status = "cancelled"

\* C11 witness: a stored event has two active registrations, and another
\* event has been deleted, which cancelled a registration of it.
C11_Witness ==
    \E e \in DOMAIN events, gone \in EventIds \ DOMAIN events :
        /\ Cardinality(ActiveRecordsOfEvent(registrations, e)) >= 2
        /\ \E i \in 1..Len(registrations) :
               /\ registrations[i].event_id = gone
               /\ registrations[i].status = "cancelled"
               /\ registrations[i].notes = DeleteReason

\* the outcomes of a manager call that was refused
Refused == {"denied", "not_authenticated"}

\* C12: update_event and delete_event of the manager change the stored events
\* or registrations only when the acting user is an Admin or the Organizer
\* who owns the event; for every other actor on a stored event (Student,
\* Visitor, another Organizer, nobody logged in) the call is denied and both
\* collections are unchanged.
C12_OnlyAdminOrOwnerMutates ==
    \A actor \in Actors \cup {NoUser}, e \in EventIds, k \in UpdateKeys :
        \A v \in UpdateValues(k) :
            LET r == manager_update_event(actor, events, registrations, e, k, v)
                d == manager_delete_event(actor, events, registrations, e)
                allowed == e \in DOMAIN events /\ Authorized(actor, events[e])
            IN /\ (r.events # events \/ r.registrations # registrations) => allowed
               /\ (d.events # events \/ d.registrations # registrations) => allowed
               /\ (e \in DOMAIN events /\ ~allowed) =>
                      /\ r.result \in Refused
                      /\ d.result \in Refused
                      /\ r.events = events /\ r.registrations = registrations
                      /\ d.events = events /\ d.registrations = registrations

\* C12 witness: an authorized update has acted (it lowered max_capacity below
\* current_attendees) on an event that has an active registration, which the
\* refused calls must leave alone.
C12_Witness ==
    \E e \in DOMAIN events :
        /\ events[e].max_capacity < events[e].current_attendees
        /\ ActiveRecordsOfEvent(registrations, e) # {}

\* the actions the gate allows a Student or a Visitor
StudentVisitorActions == {"view_events", "register_event", "view_own_registrations"}

\* C13: the permission check, a function of (role, action), returns true
\* for an Admin on every action, and for a Student or a Visitor exactly on
\* view_events, register_event and view_own_registrations: every answer
\* given is the one this table gives.
C13_PermissionTable ==
    \A p \in Procs :
        "role" \in DOMAIN call[p] =>
            /\ call[p].role = "admin" => ret[p] = "True"
            /\ call[p].role \in {"student", "visitor"} =>
                   (ret[p] = "True" <=> call[p].action \in StudentVisitorActions)

\* C19: is_available_for_registration returns true exactly when the event's
\* status is Active, current_attendees < max_capacity and the event date is
\* later than now; in every other case, a date that cannot be compared with
\* now included, it returns false.
C19_AvailableExactly ==
    \A e \in DOMAIN events :
        is_available_for_registration(events[e]) <=> Available(events[e])

StatusTransitions ==
    {<<"pending", "confirmed">>, <<"confirmed", "cancelled">>,
     <<"confirmed", "attended">>, <<"confirmed", "no_show">>}

TerminalStatuses == {"cancelled", "attended", "no_show"}

\* C14: over any sequence of register_for_event, cancel_registration,
\* bulk_cancel_event_registrations and mark_attendance, a stored registration
\* changes status only along Pending->Confirmed, Confirmed->Cancelled,
\* Confirmed->Attended and Confirmed->NoShow; one that has reached Cancelled,
\* Attended or NoShow keeps that status in every later state.
C14_OnlyStateMachineTransitions ==
    [][\A i \in 1..Len(registrations) :
           /\ i <= Len(registrations')
           /\ registrations'[i].status # registrations[i].status =>
                  <<registrations[i].status, registrations'[i].status>> \in StatusTransitions
           /\ registrations[i].status \in TerminalStatuses =>
                  registrations'[i].status = registrations[i].status]_vars

\* the reasons a bulk cancel is called with: the default of
\* cancel_registration, the method's own default, and the one delete_event gives
BulkReasons == {DefaultReason, "Event cancelled", DeleteReason}

\* C15: bulk_cancel_event_registrations(event, reason) sets every active
\* registration of that event to Cancelled with the reason in its notes,
\* returns the number it cancelled, leaves the registrations of other events
\* and the already non-active ones unchanged, adds and removes no record, and
\* changes no event (so no current_attendees).
C15_BulkCancelFrame ==
    \A e \in EventIds, reason \in BulkReasons :
        LET b == bulk_cancel_event_registrations(events, registrations, e, reason)
            active == ActiveRecordsOfEvent(registrations, e)
        IN /\ b.result = "ok"
           /\ b.cancelled_count = Cardinality(active)
           /\ Len(b.registrations) = Len(registrations)
           /\ \A i \in 1..Len(registrations) :
                  IF i \in active
                  THEN b.registrations[i] =
                           [registrations[i] EXCEPT !.status = "cancelled",
                                                    !.notes = reason]
                  ELSE b.registrations[i] = registrations[i]
           /\ b.events = events

\* C15 witness: a bulk cancel has acted on one event (its two registrations
\* are Cancelled and its current_attendees is still 2) while another event
\* holds an active registration.
C15_Witness ==
    \E e \in DOMAIN events, other \in DOMAIN events :
        /\ e # other
        /\ events[e].current_attendees = 2
        /\ Cardinality({i \in 1..Len(registrations) :
                           /\ registrations[i].event_id = e
                           /\ registrations[i].status = "cancelled"}) = 2
        /\ ActiveRecordsOfEvent(registrations, other) # {}

\* C16: when a write to the events or the registrations collection fails
\* during register_for_event or cancel_registration, the call returns the
\* storage-error failure, never success.
C16_FailedWriteIsReported ==
    \A e \in EventIds, u \in Users, w1 \in WriteResults, w2 \in WriteResults :
        LET r == register_for_event_writes(events, registrations, nextRegId, e, u, w1, w2)
            c == cancel_registration_writes(events, registrations, e, u,
                                            DefaultReason, w1, w2)
        IN /\ r.write_failed => r.result = "storage_error"
           /\ c.write_failed => c.result = "storage_error"

\* the number of stored registrations of an event that hold a slot
Holding(regs, e) == Cardinality(ActiveRecordsOfEvent(regs, e))

\* C17: the event update and the registration update of one
\* register_for_event or cancel_registration are stored all-or-nothing: in
\* every step, a write that fails included, the current_attendees of each
\* event moves by exactly as much as the number of its active registrations.
C17_BothWritesOrNone ==
    [][\A e \in DOMAIN events :
           /\ e \in DOMAIN events'
           /\ events'[e].current_attendees - events[e].current_attendees =
                  Holding(registrations', e) - Holding(registrations, e)]_vars

TerminalEventStatuses == {"cancelled", "completed"}

\* C18: the current_attendees of a stored event whose status is Cancelled or
\* Completed never changes: no register_for_event, cancel_registration, bulk
\* cancel or mark_attendance that follows cancel_event or complete_event
\* alters it.
C18_TerminalEventKeepsAttendees ==
    [][\A e \in DOMAIN events :
           (events[e].status \in TerminalEventStatuses /\ e \in DOMAIN events')
           => events'[e].current_attendees = events[e].current_attendees]_vars

\* C21: mark_attendance changes only the status of the one registration with
\* the given id and leaves every event (so every current_attendees) and every
\* other registration unchanged; for an id that matches no stored
\* registration it returns the not-found failure and changes nothing.
C21_MarkAttendanceFrame ==
    \A rid \in 1..(MaxRegs + 1), attended \in BOOLEAN :
        LET m == mark_attendance(events, registrations, rid, attended)
            matching == {i \in 1..Len(registrations) :
                            registrations[i].registration_id = rid}
        IN IF matching = {}
           THEN /\ m.result = "registration_not_found"
                /\ m.registrations = registrations
                /\ m.events = events
           ELSE /\ m.result = "ok"
                /\ m.events = events
                /\ Len(m.registrations) = Len(registrations)
                /\ Cardinality(matching) = 1
                /\ \A i \in 1..Len(registrations) :
                       IF i \in matching
                       THEN m.registrations[i] =
                                [registrations[i] EXCEPT !.status =
                                    IF attended THEN "attended" ELSE "no_show"]
                       ELSE m.registrations[i] = registrations[i]

\* C21 witness: one registration has been marked Attended and its event
\* still counts it, next to a Confirmed registration of the same event.
C21_Witness ==
    \E i \in 1..Len(registrations), j \in 1..Len(registrations) :
        /\ registrations[i].status = "attended"
        /\ registrations[j].status = "confirmed"
        /\ registrations[j].event_id = registrations[i].event_id
        /\ registrations[i].event_id \in DOMAIN events
        /\ events[registrations[i].event_id].current_attendees = 2

\* C24: starting from an empty registration store, no sequence of
\* register_for_event, cancel_registration, bulk cancel and mark_attendance
\* produces a registration with status Pending; every registration is
\* created with status Confirmed.
C24_NeverPending ==
    /\ \A i \in 1..Len(registrations) : registrations[i].status # "pending"
    /\ \A e \in EventIds, u \in Users :
           LET r == register_for_event(events, registrations, nextRegId, e, u)
           IN r.result = "ok" =>
                  /\ Len(r.registrations) = Len(registrations) + 1
                  /\ r.registrations[Len(r.registrations)].status = "confirmed"

\* C24 witness: the store holds a Confirmed, a Cancelled and a NoShow
\* registration at once.
C24_Witness ==
    \A st \in {"confirmed", "cancelled", "no_show"} :
        \E i \in 1..Len(registrations) : registrations[i].status = st

\* C25: a stored registration is never removed and its registration_id,
\* event_id and user_id never change: in every step of register_for_event,
\* cancel_registration, bulk cancel, mark_attendance and delete_event the
\* file keeps every record it had, in place, with the same three fields.
C25_RegistrationsAreKept ==
    [][/\ Len(registrations') >= Len(registrations)
       /\ \A i \in 1..Len(registrations) :
              /\ registrations'[i].registration_id = registrations[i].registration_id
              /\ registrations'[i].event_id = registrations[i].event_id
              /\ registrations'[i].user_id = registrations[i].user_id]_vars

\* C25 witness: the registrations of a deleted event are still stored,
\* Cancelled with the reason of the deletion, next to a marked registration
\* of a stored event.
C25_Witness ==
    \E i \in 1..Len(registrations), j \in 1..Len(registrations) :
        /\ registrations[i].event_id \notin DOMAIN events
        /\ registrations[i].status = "cancelled"
        /\ registrations[i].notes = DeleteReason
        /\ registrations[j].event_id \in DOMAIN events
        /\ registrations[j].status = "attended"

\* the failures that register_for_event and cancel_registration return
RegisterFailures ==
    {"event_not_found", "not_available", "already_registered", "event_full"}
CancelFailures == {"registration_not_found", "already_cancelled"}

\* C27: every register_for_event or cancel_registration call that returns a
\* failure (event not found, event not available, already registered, event
\* full, registration not found, already cancelled) leaves the stored events
\* and registrations exactly as they were before the call.
C27_FailureChangesNothing ==
    \A e \in EventIds, u \in Users :
        LET r == register_for_event(events, registrations, nextRegId, e, u)
            c == cancel_registration(events, registrations, e, u, DefaultReason)
        IN /\ r.result \in RegisterFailures \cup {"ok"}
           /\ c.result \in CancelFailures \cup {"ok"}
           /\ r.result \in RegisterFailures =>
                  r.events = events /\ r.registrations = registrations
           /\ c.result \in CancelFailures =>
                  c.events = events /\ c.registrations = registrations

\* C27 witness: a store with events that count attendees in which calls fail
\* for a missing event, for an active registration, for a cancelled
\* registration and for a missing registration.
C27_Witness ==
    /\ \E e \in EventIds, u \in Users :
           register_for_event(events, registrations, nextRegId, e, u).result
               = "event_not_found"
    /\ \E e \in DOMAIN events :
           /\ events[e].current_attendees > 0
           /\ \E u \in Users :
                  register_for_event(events, registrations, nextRegId, e, u).result
                      = "already_registered"
           /\ \E u \in Users :
                  cancel_registration(events, registrations, e, u, DefaultReason).result
                      = "already_cancelled"
    /\ \E e \in EventIds, u \in Users :
           cancel_registration(events, registrations, e, u, DefaultReason).result
               = "registration_not_found"

\* the current_attendees of each stored event of evs that is still in after
SameAttendees(evs, after) ==
    \A e \in DOMAIN evs :
        e \in DOMAIN after => after[e].current_attendees = evs[e].current_attendees

\* C28: an event's current_attendees changes only through a successful
\* register_for_event (plus one) or a successful cancel_registration (minus
\* one): create_event sets it to 0, and update_event, cancel_event,
\* complete_event, mark_attendance and bulk cancel leave it unchanged
\* whatever fields the caller passes to update_event.
C28_OnlyRegisterAndCancelCount ==
    /\ \A o \in Organizers, d \in DateValues, c \in 0..MaxCap :
           LET r == create_event(events, nextEventId, o, d, c)
           IN r.result = "ok" =>
                  /\ r.events[nextEventId].current_attendees = 0
                  /\ SameAttendees(events, r.events)
    /\ \A e \in EventIds :
           /\ \A k \in UpdateKeys : \A v \in UpdateValues(k) :
                  SameAttendees(events, update_event(events, e, k, v).events)
           /\ SameAttendees(events, cancel_event(events, e).events)
           /\ SameAttendees(events, complete_event(events, e).events)
           /\ SameAttendees(events,
                  bulk_cancel_event_registrations(events, registrations, e,
                                                  DefaultReason).events)
           /\ \A u \in Users :
                  LET r == register_for_event(events, registrations, nextRegId, e, u)
                      c == cancel_registration(events, registrations, e, u,
                                               DefaultReason)
                  IN /\ r.result = "ok" =>
                            r.events[e].current_attendees
                                = events[e].current_attendees + 1
                     /\ (c.result = "ok" /\ e \in DOMAIN events) =>
                            c.events[e].current_attendees
                                \in {events[e].current_attendees - 1, 0}
    /\ \A rid \in 1..MaxRegs, a \in BOOLEAN :
           SameAttendees(events, mark_attendance(events, registrations, rid, a).events)

\* C23: when two register_for_event calls by different users on an event
\* with at least two free slots run concurrently and both return success,
\* both registration records are stored afterwards and current_attendees
\* has grown by two (from 0 to 2): no interleaving of the loads and saves of
\* the whole collections loses either update.
C23_NoLostUpdate ==
    \A p \in Procs, q \in Procs, e \in DOMAIN events :
        (/\ p # q
         /\ events[e].max_capacity >= 2
         /\ call[p].event_id = e
         /\ call[q].event_id = e
         /\ call[p].user_id # call[q].user_id
         /\ ret[p] = "ok"
         /\ ret[q] = "ok")
        => /\ \A r \in {p, q} :
                  \E i \in 1..Len(registrations) :
                      /\ registrations[i].event_id = e
                      /\ registrations[i].user_id = call[r].user_id
           /\ events[e].current_attendees = 2

\* C30: while no user is logged in (current_user is None: before any login,
\* after logout, or after only failed logins), create_event, update_event,
\* delete_event, register_for_event and cancel_registration of
\* CampusEventManager all return a failure and leave the stored events and
\* registrations unchanged; a failed login never changes current_user.
C30_NobodyLoggedIn ==
    /\ current_user = NoUser =>
           /\ \A d \in DateValues, c \in 0..MaxCap :
                  LET r == manager_create_event(current_user, events, registrations,
                                                nextEventId, d, c)
                  IN r.result # "ok" /\ r.events = events
                                     /\ r.registrations = registrations
           /\ \A e \in EventIds :
                  /\ \A k \in UpdateKeys : \A v \in UpdateValues(k) :
                         LET r == manager_update_event(current_user, events,
                                                       registrations, e, k, v)
                         IN r.result # "ok" /\ r.events = events
                                            /\ r.registrations = registrations
                  /\ LET r == manager_delete_event(current_user, events,
                                                   registrations, e)
                     IN r.result # "ok" /\ r.events = events
                                        /\ r.registrations = registrations
                  /\ LET r == manager_register_for_event(current_user, events,
                                                         registrations, nextRegId, e)
                     IN r.result # "ok" /\ r.events = events
                                        /\ r.registrations = registrations
                  /\ LET r == manager_cancel_registration(current_user, events,
                                                          registrations, e,
                                                          DefaultReason)
                     IN r.result # "ok" /\ r.events = events
                                        /\ r.registrations = registrations
    /\ \A username \in Usernames, password \in Passwords :
           LET l == login(users, current_user, username, password)
               known == \E i \in 1..Len(users) :
                            /\ users[i].username = username
                            /\ users[i].password = hash_password(password)
                            /\ users[i].is_active
           IN /\ l.result = "ok" <=> known
              /\ l.result # "ok" => l.current_user = current_user

\* C30 witness: after a logout, with an event that counts a registration
\* stored, a manager call has been refused for want of a login.
C30_Witness ==
    /\ current_user = NoUser
    /\ ret[Console] = "not_authenticated"
    /\ \E i \in 1..Len(registrations) :
           /\ registrations[i].status = "confirmed"
           /\ registrations[i].event_id \in DOMAIN events
           /\ events[registrations[i].event_id].current_attendees = 1

\* C29: when web requests from two different logged-in sessions are handled
\* concurrently, each register_for_event, cancel_registration, update_event
\* and delete_event is carried out with the identity and role of the user of
\* the session that issued it: the shared current_user field set by one
\* request is never the one used by the other request's operation.
C29_RequestActsAsItsSession ==
    \A p \in Procs :
        pc[p] = "done" =>
            \E i \in 1..Len(users) :
                /\ users[i].user_id = call[p].user_id
                /\ call[p].acted_as.user_id = users[i].user_id
                /\ call[p].acted_as.role = users[i].role

\* C22: after any sequence of register_user calls, run one at a time or
\* concurrently, no two stored users share a username and no two share an
\* email; a register_user call with a username or email already in use (here:
\* by a default user) fails and adds no user.
C22_UniqueUsernameAndEmail ==
    /\ \A i \in 1..Len(users), j \in 1..Len(users) :
           i # j => /\ users[i].username # users[j].username
                    /\ users[i].email # users[j].email
    /\ \A p \in Procs :
           (/\ pc[p] = "done"
            /\ \E i \in 1..Len(DefaultUsers) :
                   \/ DefaultUsers[i].username = call[p].username
                   \/ DefaultUsers[i].email = call[p].email)
           => /\ ret[p] # "ok"
              /\ \A i \in 1..Len(users) : users[i].user_id # NewUserId(p)

\* C26: in the console version, after any sequence of register_attendee,
\* unregister_attendee, delete_event and delete_user, a user id is in an
\* event's attendees list exactly when that event's id is in that user's
\* registered_events list, and neither list names an event or user that is
\* no longer stored.
C26_AttendeesMatchRegisteredEvents ==
    /\ \A e \in DOMAIN controller_events, u \in DOMAIN controller_users :
           InList(u, controller_events[e].attendees)
               <=> InList(e, controller_users[u].registered_events)
    /\ \A e \in DOMAIN controller_events, u \in ConsoleUserIds :
           InList(u, controller_events[e].attendees) => u \in DOMAIN controller_users
    /\ \A u \in DOMAIN controller_users, e \in EventIds :
           InList(e, controller_users[u].registered_events)
               => e \in DOMAIN controller_events

====
